---- MODULE Spec2Model ----
(***************************************************************************)
(* Model of pfoerdie/public-class-builder: the facade compiler, the        *)
(* instance bridge, the value translator and the identity registry, in     *)
(* their two variants:                                                     *)
(*   src/Utility.js            - one closure-scoped (process-wide) registry*)
(*   src/PublicClassBuilder.js - one registry per PublicClassBuilder       *)
(***************************************************************************)
EXTENDS Integers, Sequences, FiniteSets, TLC

\* ------------------------------------------------------------------ bounds
\* private instances alive at once
MaxPriv == 1
\* facade instances alive at once
MaxPub == 2
\* elements of an array argument or result
MaxLen == 2
\* facade instances alive at once where arrays or several types are exercised
MaxSeqPub == 1

\* ------------------------------------------------------------------ values
\* A JavaScript value: t is its kind, id its identity (or its numeric value),
\* c a name it carries (class name, string content, function body),
\* s the registry scope that created it, el the elements of an array.
V(t, id, c, s, el) == [t |-> t, id |-> id, c |-> c, s |-> s, el |-> el]

Undefined == V("undefined", 0, "", "", <<>>)
Num(n) == V("number", n, "", "", <<>>)
Str(x) == V("string", 0, x, "", <<>>)
PlainObject(n) == V("object", n, "", "", <<>>)
Promise(n) == V("promise", n, "", "", <<>>)
\* a pending result that will be "fulfilled" with v or "rejected" with v
Pending(kind, v) == V("promise", 1, kind, "", <<v>>)
Array(n, el) == V("array", n, "", "", el)
Fn(body) == V("function", 0, body, "", <<>>)
ArrowFn == V("arrow", 0, "", "", <<>>)
PrivateClassOf(T) == V("PrivateClass", 0, T, "", <<>>)
PublicClassOf(s, T, n) == V("PublicClass", n, T, s, <<>>)
PrototypeOf(cls) == V("prototype", cls.id, cls.c, cls.s, <<>>)
privateInstanceAt(i) == V("privateInstance", i, "", "", <<>>)
publicInstanceAt(j) == V("publicInstance", j, "", "", <<>>)
BuilderOf(b) == V("PublicClassBuilder", 0, "", b, <<>>)

\* typeof
TypeOf(v) ==
    CASE v.t = "undefined" -> "undefined"
      [] v.t = "number" -> "number"
      [] v.t = "string" -> "string"
      [] v.t \in {"function", "arrow", "PrivateClass", "PublicClass"} -> "function"
      [] OTHER -> "object"

\* Array.isArray
IsArray(v) == v.t = "array"

\* the values that can be WeakMap keys / instanceof operands (objects)
IsObject(v) == TypeOf(v) \in {"object", "function"}

\* ---------------------------------------------------------- partial maps
\* Map / WeakMap: has, get, set
Has(m, k) == k \in DOMAIN m
Get(m, k) == IF k \in DOMAIN m THEN m[k] ELSE Undefined
Set(m, k, v) == [x \in (DOMAIN m) \cup {k} |-> IF x = k THEN v ELSE m[x]]
EmptyMap == [x \in {} |-> Undefined]

\* ------------------------------------------------------------ member keys
\* A property key: a string (its characters) or a symbol.
StringKey(chars) == [type |-> "string", chars |-> chars]
SymbolKey(chars) == [type |-> "symbol", chars |-> chars]

\* String.prototype.startsWith('_')
StartsWithUnderscore(key) == Len(key.chars) >= 1 /\ key.chars[1] = "_"

k_length == StringKey(<<"l", "e", "n", "g", "t", "h">>)
k_name == StringKey(<<"n", "a", "m", "e">>)
k_prototype == StringKey(<<"p", "r", "o", "t", "o", "t", "y", "p", "e">>)
k_constructor == StringKey(<<"c", "o", "n", "s", "t", "r", "u", "c", "t", "o", "r">>)
k_get == StringKey(<<"_", "g", "e", "t">>)
k_create == StringKey(<<"c", "r", "e", "a", "t", "e">>)
k_of == StringKey(<<"o", "f">>)
k_instances == StringKey(<<"_", "i", "n", "s", "t", "a", "n", "c", "e", "s">>)
k_VERSION == StringKey(<<"V", "E", "R", "S", "I", "O", "N">>)
k_current == StringKey(<<"c", "u", "r", "r", "e", "n", "t">>)
k_species == SymbolKey(<<"s", "p", "e", "c", "i", "e", "s">>)
k_increment == StringKey(<<"i", "n", "c", "r", "e", "m", "e", "n", "t">>)
k_peek == StringKey(<<"p", "e", "e", "k">>)
k_reset == StringKey(<<"_", "r", "e", "s", "e", "t">>)
k_kind == StringKey(<<"k", "i", "n", "d">>)
k_value == StringKey(<<"v", "a", "l", "u", "e">>)
k_DEFAULTS == StringKey(<<"D", "E", "F", "A", "U", "L", "T", "S">>)

\* ------------------------------------------------- property descriptors
\* What Reflect.getOwnPropertyDescriptor returns: get/set/value are Undefined
\* when the descriptor has no such field.
Descriptor(get, set, value, writable, enumerable, configurable) ==
    [get |-> get, set |-> set, value |-> value, writable |-> writable,
     enumerable |-> enumerable, configurable |-> configurable]

Method(body) == Descriptor(Undefined, Undefined, Fn(body), TRUE, FALSE, TRUE)
Accessor(get, set) == Descriptor(get, set, Undefined, FALSE, FALSE, TRUE)
Constant(v) == Descriptor(Undefined, Undefined, v, FALSE, TRUE, TRUE)
Field(v) == Descriptor(Undefined, Undefined, v, TRUE, TRUE, TRUE)
Builtin(v, configurable) == Descriptor(Undefined, Undefined, v, FALSE, FALSE, configurable)

\* --------------------------------------------- the implementation types
\* The implementation (private) classes the engine is applied to. Legacy is
\* unrelated to the other two; SubCounter extends Counter.
ClassNames == {"Counter", "SubCounter", "Legacy"}

SuperOf(T) == IF T = "SubCounter" THEN "Counter" ELSE ""

\* the classes whose prototype is on the prototype chain of an instance of T
AncestorsOf(T) == IF SuperOf(T) = "" THEN {T} ELSE {T, SuperOf(T)}

\* a table of own properties from a set of <<key, descriptor>> pairs
Table(pairs) == [k \in {p[1] : p \in pairs} |-> (CHOOSE p \in pairs : p[1] = k)[2]]

\* own properties every class has: length, name, prototype
ClassBuiltins(T) ==
    {<<k_length, Builtin(Num(0), TRUE)>>,
     <<k_name, Builtin(Str(T), TRUE)>>,
     <<k_prototype, Builtin(PrototypeOf(PrivateClassOf(T)), FALSE)>>}

\* class Counter {
\*   static create() { return new Counter() }      static of(x) { return x }
\*   static get _instances()                        static get current() / set current(v)
\*   static get [Symbol.species]()                  VERSION: a defined constant
\*   increment(n) { ...; return this }              peek() { return <some value> }
\*   _reset() { ... }                               get value() / set value(v)
\*   kind: a defined constant on the prototype }
CounterStatic ==
    Table(ClassBuiltins("Counter") \cup
          {<<k_create, Method("new")>>,
           <<k_of, Method("echo")>>,
           <<k_instances, Accessor(Fn("any"), Undefined)>>,
           <<k_VERSION, Constant(Num(1))>>,
           <<k_current, Accessor(Fn("any"), Fn("store"))>>,
           <<k_species, Accessor(Fn("self"), Undefined)>>})

CounterProto ==
    Table({<<k_constructor, Method("constructor")>>,
           <<k_increment, Method("self")>>,
           <<k_peek, Method("any")>>,
           <<k_reset, Method("self")>>,
           <<k_kind, Constant(Num(1))>>,
           <<k_value, Accessor(Fn("any"), Fn("store"))>>})

\* class SubCounter extends Counter {
\*   static create() {...}   static _get() {...}
\*   increment(n) {...}      _get() {...}      get value() / set value(v) }
SubCounterStatic ==
    Table(ClassBuiltins("SubCounter") \cup
          {<<k_create, Method("new")>>,
           <<k_get, Method("self")>>})

SubCounterProto ==
    Table({<<k_constructor, Method("constructor")>>,
           <<k_increment, Method("self")>>,
           <<k_get, Method("self")>>,
           <<k_value, Accessor(Fn("any"), Fn("store"))>>})

\* class Legacy { static DEFAULTS = <value>  peek() {...} }: a writable static field
LegacyStatic ==
    Table(ClassBuiltins("Legacy") \cup
          {<<k_DEFAULTS, Field(Num(1))>>})

LegacyProto ==
    Table({<<k_constructor, Method("constructor")>>,
           <<k_peek, Method("any")>>})

InitialMembers ==
    [T \in ClassNames |->
        CASE T = "Counter" -> [static |-> CounterStatic, proto |-> CounterProto]
          [] T = "SubCounter" -> [static |-> SubCounterStatic, proto |-> SubCounterProto]
          [] OTHER -> [static |-> LegacyStatic, proto |-> LegacyProto]]

\* A slot is one own member of a private class: <<class, level, key>>.
\* `red` maps the slots that were redefined since load (Object.defineProperty
\* on the private class or its prototype) to their current descriptor; the
\* members of a class are its declared ones with those redefinitions applied.
privateMembers(red, T) ==
    LET now(level) ==
            [k \in DOMAIN InitialMembers[T][level] |->
                IF Has(red, <<T, level, k>>) THEN red[<<T, level, k>>]
                ELSE InitialMembers[T][level][k]]
    IN  [static |-> now("static"), proto |-> now("proto")]

\* ------------------------------------------------ Object.defineProperty
\* The descriptor object handed to Object.defineProperty: configurable,
\* enumerable and writable are TRUE when the field is present (the code only
\* ever writes true); get, set and value name the synthesized closure or are
\* "absent"; privateProperty is the descriptor the closure captured.
NoDescriptor == Descriptor(Undefined, Undefined, Undefined, FALSE, FALSE, FALSE)

PropertyOf(get, set, value, writable, enumerable, configurable, captured) ==
    [get |-> get, set |-> set, value |-> value, writable |-> writable,
     enumerable |-> enumerable, configurable |-> configurable,
     privateProperty |-> captured]

IsAccessorDescriptor(P) == P.get # "absent" \/ P.set # "absent"
IsDataDescriptor(P) == P.value # "absent" \/ P.writable

\* Object.defineProperty(O, key, P): err (a TypeError was thrown) or the new
\* table of own properties. Fields absent from P keep the current attribute
\* of an existing configurable property, and default to false on a new one.
DefineProperty(O, key, P) ==
    IF IsAccessorDescriptor(P) /\ IsDataDescriptor(P)
    THEN [err |-> TRUE, O |-> O]
    ELSE IF ~Has(O, key)
    THEN [err |-> FALSE, O |-> Set(O, key, P)]
    ELSE IF ~O[key].configurable
    THEN [err |-> TRUE, O |-> O]
    ELSE LET cur == O[key]
             sameKind == IsAccessorDescriptor(P) = IsAccessorDescriptor(cur)
             keep(new, old) == IF new # "absent" THEN new
                               ELSE IF sameKind THEN old ELSE "absent"
         IN  [err |-> FALSE,
              O |-> Set(O, key,
                        PropertyOf(keep(P.get, cur.get), keep(P.set, cur.set),
                                   keep(P.value, cur.value),
                                   P.writable \/ (sameKind /\ cur.writable),
                                   P.enumerable \/ cur.enumerable,
                                   P.configurable \/ cur.configurable,
                                   P.privateProperty))]

\* own properties of a freshly declared `class PublicClass { constructor ; static _get }`
PublicClassOwn ==
    Table({<<k_length, PropertyOf("absent", "absent", "builtin", FALSE, FALSE, TRUE, NoDescriptor)>>,
           <<k_name, PropertyOf("absent", "absent", "builtin", FALSE, FALSE, TRUE, NoDescriptor)>>,
           <<k_prototype, PropertyOf("absent", "absent", "builtin", FALSE, FALSE, FALSE, NoDescriptor)>>,
           <<k_get, PropertyOf("absent", "absent", "_get", TRUE, FALSE, TRUE, NoDescriptor)>>})

PublicPrototypeOwn ==
    Table({<<k_constructor, PropertyOf("absent", "absent", "builtin", TRUE, FALSE, TRUE, NoDescriptor)>>})

\* ------------------------------------------------------ facade compiler
\* the filter without the test for the internal marker
SkipKey_keepsInternal(key, reserved) ==
    \/ key.type # "string"
    \/ key = reserved

\* 2.1 / 3.1: the keys the loops skip (reserved is "prototype" for the class,
\* "constructor" for the prototype)
SkipKey(key, reserved) ==
    \/ key.type # "string"
    \/ StartsWithUnderscore(key)
    \/ key = reserved

\* 2.2 - 2.4 / 3.2 - 3.4: the public property synthesized from a private one
publicPropertyOf(privateProperty) ==
    IF privateProperty.get # Undefined \/ privateProperty.set # Undefined
    THEN PropertyOf(IF privateProperty.get # Undefined THEN "getter" ELSE "absent",
                    IF privateProperty.set # Undefined THEN "setter" ELSE "absent",
                    "absent", FALSE,
                    privateProperty.enumerable, privateProperty.configurable,
                    privateProperty)
    ELSE IF TypeOf(privateProperty.value) = "function"
    THEN PropertyOf("absent", "absent", "method", privateProperty.writable,
                    privateProperty.enumerable, privateProperty.configurable,
                    privateProperty)
    ELSE PropertyOf("valueGetter", "absent", "absent", privateProperty.writable,
                    privateProperty.enumerable, privateProperty.configurable,
                    privateProperty)

\* The loop over Reflect.ownKeys(source): every key not skipped is defined on
\* target. The iterations touch distinct keys and the first TypeError aborts
\* the whole compilation, so the result does not depend on the key order.
RECURSIVE transfer(_, _, _, _)
transfer(source, keys, reserved, target) ==
    IF keys = {} THEN [err |-> FALSE, O |-> target]
    ELSE LET key == CHOOSE k \in keys : TRUE
             rest == keys \ {key}
         IN  IF SkipKey(key, reserved)
             THEN transfer(source, rest, reserved, target)
             ELSE LET r == DefineProperty(target, key, publicPropertyOf(source[key]))
                  IN  IF r.err THEN r
                      ELSE transfer(source, rest, reserved, r.O)

\* steps 2 and 3 of the compilation: [err, static, proto]
transferAll(own) ==
    LET st == transfer(own.static, DOMAIN own.static, k_prototype, PublicClassOwn)
        pr == transfer(own.proto, DOMAIN own.proto, k_constructor, PublicPrototypeOwn)
    IN  [err |-> st.err \/ pr.err, static |-> st.O, proto |-> pr.O]

\* ------------------------------------------------------------------ state
VARIABLES
    publicClassesMap,     \* Utility.js closure: PublicClass  -> PrivateClass
    privateClassesMap,    \* Utility.js closure: PrivateClass -> PublicClass
    publicInstancesMap,   \* Utility.js closure: public instance  -> private instance
    privateInstancesMap,  \* Utility.js closure: private instance -> public instance
    _privateMap,          \* PublicClassBuilder.js: builder -> its four maps (_private)
    heap,                 \* every live instance -> the class it was constructed by
    redefined,            \* the members of private classes redefined since load
    facades,              \* every synthesized PublicClass -> its own static / prototype members
    cfg,                  \* the workload: which classes, builders and inputs are exercised
    last                  \* the last operation: its inputs and what the caller got

vars == <<publicClassesMap, privateClassesMap, publicInstancesMap, privateInstancesMap,
          _privateMap, heap, redefined, facades, cfg, last>>

utilityMaps == <<publicClassesMap, privateClassesMap, publicInstancesMap, privateInstancesMap>>

\* the record of an operation
Op(op, s, cls, this, key, args, receiver, privateArgs, privateResult, ret, err, note) ==
    [op |-> op, s |-> s, cls |-> cls, this |-> this, key |-> key, args |-> args,
     receiver |-> receiver, privateArgs |-> privateArgs, privateResult |-> privateResult,
     ret |-> ret, err |-> err, note |-> note]

NoKey == StringKey(<<>>)

\* no operation is in progress: the caller has taken the last result
Idle ==
    Op("idle", "", "", Undefined, NoKey, Undefined, Undefined, Undefined, Undefined,
       Undefined, "none", "")

\* the caller is free to start an operation
Ready == last.op = "idle"

\* ------------------------------------------------------------- registries
\* the four maps of one scope, as PublicClassBuilder#constructor creates them
NewRegistry ==
    [publicClassesMap |-> EmptyMap, privateClassesMap |-> EmptyMap,
     publicInstancesMap |-> EmptyMap, privateInstancesMap |-> EmptyMap]

\* the closure maps of Utility.js as one registry
UtilityRegistry ==
    [publicClassesMap |-> publicClassesMap, privateClassesMap |-> privateClassesMap,
     publicInstancesMap |-> publicInstancesMap, privateInstancesMap |-> privateInstancesMap]

\* one registry that the PublicClasses of every builder close over
RegistryOf_oneForAll(s) ==
    IF s = "shared" THEN UtilityRegistry
    ELSE _privateMap[CHOOSE b \in DOMAIN _privateMap : TRUE]

\* the registry a PublicClass of scope s closes over: the module's maps
\* ("shared") or the _private of the builder that built it
RegistryOf(s) == IF s = "shared" THEN UtilityRegistry ELSE _privateMap[BuilderOf(s)]

Scopes == {"shared"} \cup {b.s : b \in DOMAIN _privateMap}

\* the operation leaves scope s with registry reg
WriteRegistry(s, reg) ==
    IF s = "shared"
    THEN /\ publicClassesMap' = reg.publicClassesMap
         /\ privateClassesMap' = reg.privateClassesMap
         /\ publicInstancesMap' = reg.publicInstancesMap
         /\ privateInstancesMap' = reg.privateInstancesMap
         /\ UNCHANGED _privateMap
    ELSE /\ _privateMap' = [_privateMap EXCEPT ![BuilderOf(s)] = reg]
         /\ UNCHANGED utilityMaps

\* ------------------------------------------------------------------ heap
privateInstances == {x \in DOMAIN heap : x.t = "privateInstance"}
publicInstances == {x \in DOMAIN heap : x.t = "publicInstance"}

\* the next object identities (the smallest index not in use)
FreshIndex(used) == CHOOSE i \in 1..(Cardinality(used) + 1) : i \notin used
FreshPrivate(h) ==
    privateInstanceAt(FreshIndex({x.id : x \in {y \in DOMAIN h : y.t = "privateInstance"}}))
FreshPublic(h) ==
    publicInstanceAt(FreshIndex({x.id : x \in {y \in DOMAIN h : y.t = "publicInstance"}}))

\* x instanceof C, for a class C (private or public); a primitive is an instance of nothing
InstanceOf(h, x, C) ==
    /\ Has(h, x)
    /\ IF C.t = "PrivateClass"
       THEN h[x].t = "PrivateClass" /\ C.c \in AncestorsOf(h[x].c)
       ELSE h[x] = C

\* the array identities in use in a value, and the first one unused
RECURSIVE ArrayIds(_)
ArrayIds(v) ==
    IF IsArray(v)
    THEN {v.id} \cup UNION {ArrayIds(v.el[i]) : i \in 1..Len(v.el)}
    ELSE {}

Max(S) == IF S = {} THEN 0 ELSE CHOOSE x \in S : \A y \in S : y <= x
FreshArray(v) == Max(ArrayIds(v)) + 1

\* ------------------------------------------- value translator (Utility.js)
\* A translator returns [err, v, n]: whether it threw, the translated value
\* and the next unused array identity (Array.prototype.map allocates a new
\* array before it visits the elements).
RECURSIVE filterPublicInstance(_, _, _)
RECURSIVE mapPublicInstance(_, _, _, _)
filterPublicInstance(pim, obj, n) ==
    IF Has(pim, obj) THEN [err |-> FALSE, v |-> pim[obj], n |-> n]
    ELSE IF IsArray(obj)
    THEN LET r == mapPublicInstance(pim, obj.el, 1, n + 1)
         IN  [err |-> FALSE, v |-> Array(n, r.v), n |-> r.n]
    ELSE IF TypeOf(obj) = "promise"
    THEN [err |-> FALSE, v |-> V("promise", n, "filterPublicInstance", "", <<obj>>), n |-> n + 1]
    ELSE [err |-> FALSE, v |-> obj, n |-> n]

mapPublicInstance(pim, el, i, n) ==
    IF i > Len(el) THEN [v |-> <<>>, n |-> n]
    ELSE LET e == filterPublicInstance(pim, el[i], n)
             r == mapPublicInstance(pim, el, i + 1, e.n)
         IN  [v |-> <<e.v>> \o r.v, n |-> r.n]

RECURSIVE filterPrivateInstance(_, _, _)
RECURSIVE mapPrivateInstance(_, _, _, _)
filterPrivateInstance(prim, obj, n) ==
    IF Has(prim, obj) THEN [err |-> FALSE, v |-> prim[obj], n |-> n]
    ELSE IF IsArray(obj)
    THEN LET r == mapPrivateInstance(prim, obj.el, 1, n + 1)
         IN  [err |-> FALSE, v |-> Array(n, r.v), n |-> r.n]
    ELSE IF TypeOf(obj) = "promise"
    THEN [err |-> FALSE, v |-> V("promise", n, "filterPrivateInstance", "", <<obj>>), n |-> n + 1]
    ELSE [err |-> FALSE, v |-> obj, n |-> n]

mapPrivateInstance(prim, el, i, n) ==
    IF i > Len(el) THEN [v |-> <<>>, n |-> n]
    ELSE LET e == filterPrivateInstance(prim, el[i], n)
             r == mapPrivateInstance(prim, el, i + 1, e.n)
         IN  [v |-> <<e.v>> \o r.v, n |-> r.n]

\* --------------------------------- value translator (PublicClassBuilder.js)
\* filterPublic.call(this, obj): `_privateMap.get(this)` is undefined unless
\* `this` is a PublicClassBuilder, and reading a map of undefined throws a
\* TypeError.
RECURSIVE filterPublic(_, _, _, _)
RECURSIVE mapPublic(_, _, _, _, _)
filterPublic(pm, this, obj, n) ==
    IF ~Has(pm, this) THEN [err |-> TRUE, v |-> Undefined, n |-> n]
    ELSE IF Has(pm[this].publicInstancesMap, obj)
    THEN [err |-> FALSE, v |-> pm[this].publicInstancesMap[obj], n |-> n]
    ELSE IF Has(pm[this].publicClassesMap, obj)
    THEN [err |-> FALSE, v |-> pm[this].publicClassesMap[obj], n |-> n]
    ELSE IF IsArray(obj)
    THEN LET r == mapPublic(pm, this, obj.el, 1, n + 1)
         IN  [err |-> r.err, v |-> Array(n, r.v), n |-> r.n]
    ELSE IF TypeOf(obj) = "promise"
    THEN [err |-> FALSE, v |-> V("promise", n, "filterPublic", "", <<obj>>), n |-> n + 1]
    ELSE [err |-> FALSE, v |-> obj, n |-> n]

mapPublic(pm, this, el, i, n) ==
    IF i > Len(el) THEN [err |-> FALSE, v |-> <<>>, n |-> n]
    ELSE LET e == filterPublic(pm, this, el[i], n)
             r == mapPublic(pm, this, el, i + 1, e.n)
         IN  [err |-> e.err \/ r.err, v |-> <<e.v>> \o r.v, n |-> r.n]

RECURSIVE filterPrivate(_, _, _, _)
RECURSIVE mapPrivate(_, _, _, _, _)
filterPrivate(pm, this, obj, n) ==
    IF ~Has(pm, this) THEN [err |-> TRUE, v |-> Undefined, n |-> n]
    ELSE IF Has(pm[this].privateInstancesMap, obj)
    THEN [err |-> FALSE, v |-> pm[this].privateInstancesMap[obj], n |-> n]
    ELSE IF Has(pm[this].privateClassesMap, obj)
    THEN [err |-> FALSE, v |-> pm[this].privateClassesMap[obj], n |-> n]
    ELSE IF IsArray(obj)
    THEN LET r == mapPrivate(pm, this, obj.el, 1, n + 1)
         IN  [err |-> r.err, v |-> Array(n, r.v), n |-> r.n]
    ELSE IF TypeOf(obj) = "promise"
    THEN [err |-> FALSE, v |-> V("promise", n, "filterPrivate", "", <<obj>>), n |-> n + 1]
    ELSE [err |-> FALSE, v |-> obj, n |-> n]

mapPrivate(pm, this, el, i, n) ==
    IF i > Len(el) THEN [err |-> FALSE, v |-> <<>>, n |-> n]
    ELSE LET e == filterPrivate(pm, this, el[i], n)
             r == mapPrivate(pm, this, el, i + 1, e.n)
         IN  [err |-> e.err \/ r.err, v |-> <<e.v>> \o r.v, n |-> r.n]

\* The translation a synthesized member of a PublicClass of scope s performs
\* with receiver `this`: Utility.js calls its closure's translator,
\* PublicClassBuilder.js calls filterPublic.call(this, ...).
toPrivate(s, reg, pm, this, obj, n) ==
    IF s = "shared" THEN filterPublicInstance(reg.publicInstancesMap, obj, n)
    ELSE filterPublic(pm, this, obj, n)

toPublic(s, reg, pm, this, obj, n) ==
    IF s = "shared" THEN filterPrivateInstance(reg.privateInstancesMap, obj, n)
    ELSE filterPrivate(pm, this, obj, n)

\* --------------------------------------------------------------- compile
\* what a caller may hand to getPublicClass
CompileInputs ==
    {PrivateClassOf(T) : T \in cfg.classes} \cup {Num(5), PlainObject(1), ArrowFn, Undefined}

\* `PrivateClass.prototype` is truthy: classes and ordinary functions
HasPrototype(v) == v.t \in {"PrivateClass", "PublicClass", "function"}

\* a guard that takes nothing for a class
notAClass_always(PrivateClass) == TRUE

\* the guard of getPublicClass: not a class
notAClass(PrivateClass) == TypeOf(PrivateClass) # "function" \/ ~HasPrototype(PrivateClass)

\* a compiler without the memo test
isCompiled_never(pcm, PrivateClass) == FALSE

\* the memo test of getPublicClass
isCompiled(pcm, PrivateClass) == Has(pcm, PrivateClass)

\* the members a PublicClass and its prototype own
ownMembers(fac, PublicClass) == fac[PublicClass]

\* Steps 1 - 3 of Utility.js getPublicClass: the new PublicClass, or the
\* TypeError Object.defineProperty raised. The n-th class built for T in a
\* scope is a distinct object.
buildClass(red, fac, s, PrivateClass) ==
    LET r == transferAll(privateMembers(red, PrivateClass.c))
    IN  [err |-> r.err,
         PublicClass |-> PublicClassOf(s, PrivateClass.c,
                            Cardinality({F \in DOMAIN fac : F.s = s /\ F.c = PrivateClass.c})),
         own |-> [static |-> r.static, proto |-> r.proto]]

\* PublicClassBuilder.js buildPublicClass.call(builder, PrivateClass)
buildPublicClass(red, fac, b, PrivateClass) ==
    LET r == transferAll(privateMembers(red, PrivateClass.c))
    IN  [err |-> r.err,
         PublicClass |-> PublicClassOf(b, PrivateClass.c,
                            Cardinality({F \in DOMAIN fac : F.s = b /\ F.c = PrivateClass.c})),
         own |-> [static |-> r.static, proto |-> r.proto]]

\* Utility.js: exports.getPublicClass(PrivateClass)
getPublicClass(PrivateClass) ==
    LET op(ret, err, note) ==
            Op("getPublicClass", "shared", PrivateClass.c, Undefined, NoKey, PrivateClass,
               Undefined, Undefined, Undefined, ret, err, note)
    IN  /\ Ready
        /\ IF notAClass(PrivateClass)
           THEN /\ last' = op(Undefined, "NotAClass", "")
                /\ UNCHANGED <<utilityMaps, _privateMap, heap, redefined, facades, cfg>>
           ELSE IF isCompiled(privateClassesMap, PrivateClass)
           THEN /\ last' = op(privateClassesMap[PrivateClass], "none", "cached")
                /\ UNCHANGED <<utilityMaps, _privateMap, heap, redefined, facades, cfg>>
           ELSE LET b == buildClass(redefined, facades, "shared", PrivateClass)
                IN  IF b.err
                    THEN /\ last' = op(Undefined, "TypeError", "defineProperty")
                         /\ UNCHANGED <<utilityMaps, _privateMap, heap, redefined, facades, cfg>>
                    ELSE /\ facades' = Set(facades, b.PublicClass, b.own)
                         /\ privateClassesMap' = Set(privateClassesMap, PrivateClass, b.PublicClass)
                         /\ publicClassesMap' = Set(publicClassesMap, b.PublicClass, PrivateClass)
                         /\ last' = op(b.PublicClass, "none", "built")
                         /\ UNCHANGED <<publicInstancesMap, privateInstancesMap, _privateMap,
                                        heap, redefined, cfg>>

\* PublicClassBuilder.js: new PublicClassBuilder()
PublicClassBuilder_constructor(b) ==
    /\ Ready
    /\ ~Has(_privateMap, BuilderOf(b))
    /\ _privateMap' = Set(_privateMap, BuilderOf(b), NewRegistry)
    /\ last' = Op("PublicClassBuilder", b, "", BuilderOf(b), NoKey, Undefined, Undefined,
                  Undefined, Undefined, BuilderOf(b), "none", "")
    /\ UNCHANGED <<utilityMaps, heap, redefined, facades, cfg>>

\* PublicClassBuilder.js: builder.getPublicClass(PrivateClass)
PublicClassBuilder_getPublicClass(b, PrivateClass) ==
    /\ Ready
    /\ Has(_privateMap, BuilderOf(b))
    /\ LET _private == _privateMap[BuilderOf(b)]
           op(ret, err, note) ==
               Op("getPublicClass", b, PrivateClass.c, BuilderOf(b), NoKey, PrivateClass,
                  Undefined, Undefined, Undefined, ret, err, note)
       IN  IF notAClass(PrivateClass)
           THEN /\ last' = op(Undefined, "NotAClass", "")
                /\ UNCHANGED <<utilityMaps, _privateMap, heap, redefined, facades, cfg>>
           ELSE IF isCompiled(_private.privateClassesMap, PrivateClass)
           THEN /\ last' = op(_private.privateClassesMap[PrivateClass], "none", "cached")
                /\ UNCHANGED <<utilityMaps, _privateMap, heap, redefined, facades, cfg>>
           ELSE LET r == buildPublicClass(redefined, facades, b, PrivateClass)
                IN  IF r.err
                    THEN /\ last' = op(Undefined, "TypeError", "defineProperty")
                         /\ UNCHANGED <<utilityMaps, _privateMap, heap, redefined, facades, cfg>>
                    ELSE /\ facades' = Set(facades, r.PublicClass, r.own)
                         /\ _privateMap' =
                               [_privateMap EXCEPT ![BuilderOf(b)] =
                                   [_private EXCEPT
                                       !.privateClassesMap = Set(@, PrivateClass, r.PublicClass),
                                       !.publicClassesMap = Set(@, r.PublicClass, PrivateClass)]]
                         /\ last' = op(r.PublicClass, "none", "built")
                         /\ UNCHANGED <<utilityMaps, heap, redefined, cfg>>

\* ------------------------------------------------------- instance bridge
First(arr) == IF Len(arr.el) >= 1 THEN arr.el[1] ELSE Undefined

\* what the implementation constructor does when the construct form runs it
CtorBehaviours ==
    {"plain", "throws", "returnsExisting", "lookupSelf", "wrapSelf", "lookupSelfThrows"}

\* a binding that first drops the facade the private instance had before
bind_rebinding(reg, this, privateInstance) ==
    LET old == {f \in DOMAIN reg.publicInstancesMap :
                   reg.publicInstancesMap[f] = privateInstance}
    IN  [reg EXCEPT !.publicInstancesMap =
                        Set([f \in (DOMAIN @) \ old |-> @[f]], this, privateInstance),
                    !.privateInstancesMap = Set(@, privateInstance, this)]

\* 1.2: save the relation between the public and private instance
bind(reg, this, privateInstance) ==
    [reg EXCEPT !.publicInstancesMap = Set(@, this, privateInstance),
                !.privateInstancesMap = Set(@, privateInstance, this)]

\* a wrap form without the test
alreadyBound_unchecked(prim, privateInstance) == FALSE

\* 1.1a: the wrap form's test that the private instance is already bound
alreadyBound(prim, privateInstance) == Has(prim, privateInstance)

\* what a run of the constructor or of _get yields: the error thrown, the heap
\* and the registry afterwards, and the facade instance (`this`, or the one found)
Outcome(err, h, reg, ret, privateInstance, privateArgs, note) ==
    [err |-> err, heap |-> h, reg |-> reg, ret |-> ret,
     privateInstance |-> privateInstance, privateArgs |-> privateArgs, note |-> note]

\* 1.1a + 1.2: new PublicClass(privateInstance), privateInstance instanceof PrivateClass
wrap(PublicClass, privateInstance, h, reg) ==
    IF alreadyBound(reg.privateInstancesMap, privateInstance)
    THEN Outcome("AlreadyBound", h, reg, FreshPublic(h), privateInstance, Undefined, "wrap")
    ELSE Outcome("none", Set(h, FreshPublic(h), PublicClass),
                 bind(reg, FreshPublic(h), privateInstance),
                 FreshPublic(h), privateInstance, Undefined, "wrap")

\* static _get(privateInstance). In PublicClassBuilder.js the second test reads
\* the identifier `publicClassesMap`, which that module does not declare:
\* evaluating it throws a ReferenceError.
lookup(PublicClass, privateInstance, h, reg) ==
    IF Has(reg.privateInstancesMap, privateInstance)
    THEN Outcome("none", h, reg, reg.privateInstancesMap[privateInstance], privateInstance,
                 Undefined, "registered")
    ELSE IF PublicClass.s # "shared"
    THEN Outcome("ReferenceError", h, reg, Undefined, privateInstance, Undefined, "")
    ELSE IF ~Has(reg.publicClassesMap, PublicClass)
    THEN Outcome("TypeError", h, reg, Undefined, privateInstance, Undefined, "instanceof")
    ELSE IF InstanceOf(h, privateInstance, reg.publicClassesMap[PublicClass])
    THEN wrap(PublicClass, privateInstance, h, reg)
    ELSE Outcome("UnrelatedInstance", h, reg, Undefined, privateInstance, Undefined, "")

\* a construct form that saves the relation before the private constructor
\* has returned
construct_bindsFirst(pm, PrivateClass, PublicClass, publicArgs, ctor, existing, h, reg) ==
    LET this == FreshPublic(h)
        p == FreshPrivate(h)
        h2 == Set(Set(h, this, PublicClass), p, PrivateClass)
        a == toPrivate(PublicClass.s, reg, pm, this, publicArgs, FreshArray(publicArgs))
    IN  IF InstanceOf(h, First(publicArgs), PrivateClass)
        THEN wrap(PublicClass, First(publicArgs), h, reg)
        ELSE IF a.err
        THEN Outcome("TypeError", h, reg, this, Undefined, Undefined, "construct")
        ELSE IF ctor \in {"throws", "lookupSelfThrows"}
        THEN Outcome("Error", h2, bind(reg, this, p), this, Undefined, a.v, "construct")
        ELSE Outcome("none", h2, bind(reg, this, p), this, p, a.v, "construct")

\* The result of `new PublicClass(...publicArgs)` in heap h and registry reg.
\* `this` is allocated before the body runs. ctor / existing say what the
\* private constructor of the construct form does: "plain" returns its new
\* object; "throws" raises; "returnsExisting" returns the object `existing`;
\* "lookupSelfThrows" calls PublicClass._get(this) on the object under
\* construction and then raises;
\* "lookupSelf" calls PublicClass._get(this) and "wrapSelf" calls
\* new PublicClass(this) on the object under construction, then returns it.
construct(pm, PrivateClass, PublicClass, publicArgs, ctor, existing, h, reg) ==
    IF InstanceOf(h, First(publicArgs), PrivateClass)
    THEN wrap(PublicClass, First(publicArgs), h, reg)
    ELSE LET this == FreshPublic(h)
             h1 == Set(h, this, PublicClass)
             a == toPrivate(PublicClass.s, reg, pm, this, publicArgs, FreshArray(publicArgs))
             p == FreshPrivate(h)
             h2 == Set(h1, p, PrivateClass)
             inner == IF ctor \in {"lookupSelf", "lookupSelfThrows"}
                      THEN lookup(PublicClass, p, h2, reg)
                   ELSE wrap(PublicClass, p, h2, reg)
         IN  IF a.err
             THEN Outcome("TypeError", h, reg, this, Undefined, Undefined, "construct")
             ELSE CASE ctor = "throws" ->
                        Outcome("Error", h, reg, this, Undefined, a.v, "construct")
                    [] ctor = "returnsExisting" ->
                        Outcome("none", h1, bind(reg, this, existing), this, existing, a.v,
                                "construct")
                    [] ctor = "lookupSelfThrows" ->
                        IF inner.err # "none"
                        THEN Outcome(inner.err, h, reg, this, Undefined, a.v, "construct")
                        ELSE Outcome("Error", inner.heap, inner.reg, this, Undefined, a.v,
                                     "construct")
                    [] ctor \in {"lookupSelf", "wrapSelf"} ->
                        IF inner.err # "none"
                        THEN Outcome(inner.err, h, reg, this, Undefined, a.v, "construct")
                        ELSE Outcome("none", inner.heap, bind(inner.reg, this, p), this, p, a.v,
                                     "construct")
                    [] OTHER ->
                        Outcome("none", h2, bind(reg, this, p), this, p, a.v, "construct")

\* the objects an operation leaves on the heap stay within the bounds
InBounds(h) ==
    /\ Cardinality({x \in DOMAIN h : x.t = "privateInstance"}) <= cfg.maxPriv
    /\ Cardinality({x \in DOMAIN h : x.t = "publicInstance"}) <= cfg.maxPub

\* new PublicClass(...publicArgs)
PublicClass_constructor(PublicClass, publicArgs, ctor, existing) ==
    LET r == construct(_privateMap, PrivateClassOf(PublicClass.c), PublicClass, publicArgs,
                       ctor, existing, heap, RegistryOf(PublicClass.s))
    IN  /\ Ready
        /\ InBounds(r.heap)
        /\ heap' = r.heap
        /\ WriteRegistry(PublicClass.s, r.reg)
        /\ last' = Op("constructor", PublicClass.s, PublicClass.c, r.ret, NoKey, publicArgs,
                      Undefined, r.privateArgs, r.privateInstance,
                      IF r.err = "none" THEN r.ret ELSE Undefined, r.err,
                      IF r.note = "wrap" THEN "wrap" ELSE ctor)
        /\ UNCHANGED <<redefined, facades, cfg>>

\* PublicClass._get(privateInstance)
PublicClass_get(PublicClass, privateInstance) ==
    LET r == lookup(PublicClass, privateInstance, heap, RegistryOf(PublicClass.s))
    IN  /\ Ready
        /\ InBounds(r.heap)
        /\ heap' = r.heap
        /\ WriteRegistry(PublicClass.s, r.reg)
        /\ last' = Op("_get", PublicClass.s, PublicClass.c, PublicClass, k_get,
                      Array(1, <<privateInstance>>), Undefined, Undefined, privateInstance,
                      r.ret, r.err, r.note)
        /\ UNCHANGED <<redefined, facades, cfg>>

\* ---------------------------------------------------- synthesized members
\* What the private member does when the facade delegates to it: "new" returns
\* a new instance of the class, "self" its receiver, "echo" its first
\* argument, "any" some value the implementation holds, "store" nothing.
runBody(body, receiver, privatArgs, any, PrivateClass, h) ==
    CASE body = "new" -> [v |-> FreshPrivate(h), heap |-> Set(h, FreshPrivate(h), PrivateClass)]
      [] body = "echo" -> [v |-> First(privatArgs), heap |-> h]
      [] body = "self" -> [v |-> receiver, heap |-> h]
      [] body = "any" -> [v |-> any, heap |-> h]
      [] OTHER -> [v |-> Undefined, heap |-> h]

\* the objects that inherit the members of PublicClass.prototype: its
\* instances and the prototype object itself
ReceiversOf(PublicClass, level) ==
    IF level = "static" THEN {PublicClass}
    ELSE {f \in publicInstances : heap[f] = PublicClass} \cup {PrototypeOf(PublicClass)}

\* prototype members that delegate whatever their receiver is
unbound_unguarded(reg, level, this) == FALSE

\* 3.4: the guard of every prototype member
unbound(reg, level, this) == level = "proto" /\ ~Has(reg.publicInstancesMap, this)

\* the receiver the private member is applied to
privateReceiver(reg, level, this, PrivateClass) ==
    IF level = "static" THEN PrivateClass ELSE Get(reg.publicInstancesMap, this)

\* 2.4b.1 / 3.4b.1: this[key](...publicArgs) on a synthesized method
callMethod(PublicClass, level, this, key, publicArgs, any) ==
    LET own == ownMembers(facades, PublicClass)[level]
        reg == RegistryOf(PublicClass.s)
        PrivateClass == PrivateClassOf(PublicClass.c)
        privateProperty == own[key].privateProperty
        op(receiver, privatArgs, privateResult, ret, err, note) ==
            Op("call", PublicClass.s, PublicClass.c, this, key, publicArgs, receiver,
               privatArgs, privateResult, ret, err, note)
        a == toPrivate(PublicClass.s, reg, _privateMap, this, publicArgs, FreshArray(publicArgs))
        receiver == privateReceiver(reg, level, this, PrivateClass)
        b == runBody(privateProperty.value.c, receiver, a.v, any, PrivateClass, heap)
        r == toPublic(PublicClass.s, reg, _privateMap, this, b.v,
                      Max({a.n, FreshArray(b.v)}))
    IN  /\ Ready
        /\ Has(own, key)
        /\ own[key].value = "method"
        /\ (privateProperty.value.c = "any") = (any # Undefined)
        /\ IF unbound(reg, level, this)
           THEN /\ last' = op(Undefined, Undefined, Undefined, Undefined, "none", "unbound")
                /\ UNCHANGED heap
           ELSE IF a.err
           THEN /\ last' = op(Undefined, Undefined, Undefined, Undefined, "TypeError",
                              privateProperty.value.c)
                /\ UNCHANGED heap
           ELSE /\ InBounds(b.heap)
                /\ heap' = b.heap
                /\ last' = IF r.err
                           THEN op(receiver, a.v, b.v, Undefined, "TypeError", privateProperty.value.c)
                           ELSE op(receiver, a.v, b.v, r.v, "none", privateProperty.value.c)
        /\ UNCHANGED <<utilityMaps, _privateMap, redefined, facades, cfg>>

\* 2.4a.1, 2.4b.2 / 3.4a.1, 3.4b.2: reading this[key] on a synthesized getter
getMember(PublicClass, level, this, key, any) ==
    LET own == ownMembers(facades, PublicClass)[level]
        reg == RegistryOf(PublicClass.s)
        PrivateClass == PrivateClassOf(PublicClass.c)
        privateProperty == own[key].privateProperty
        op(receiver, privateResult, ret, err, note) ==
            Op("get", PublicClass.s, PublicClass.c, this, key, Undefined, receiver,
               Undefined, privateResult, ret, err, note)
        receiver == privateReceiver(reg, level, this, PrivateClass)
        privateResult ==
            IF own[key].get = "getter"
            THEN runBody(privateProperty.get.c, receiver, Array(1, <<>>), any, PrivateClass, heap).v
            ELSE privateProperty.value
        r == toPublic(PublicClass.s, reg, _privateMap, this, privateResult,
                      FreshArray(privateResult))
    IN  /\ Ready
        /\ Has(own, key)
        /\ own[key].get \in {"getter", "valueGetter"}
        /\ (own[key].get = "getter" /\ privateProperty.get.c = "any") = (any # Undefined)
        /\ IF unbound(reg, level, this)
           THEN last' = op(Undefined, Undefined, Undefined, "none", "unbound")
           ELSE IF r.err
           THEN last' = op(receiver, privateResult, Undefined, "TypeError", own[key].get)
           ELSE last' = op(receiver, privateResult, r.v, "none", own[key].get)
        /\ UNCHANGED <<utilityMaps, _privateMap, heap, redefined, facades, cfg>>

\* 2.4a.2 / 3.4a.2: this[key] = publicValue on a synthesized setter
setMember(PublicClass, level, this, key, publicValue) ==
    LET own == ownMembers(facades, PublicClass)[level]
        reg == RegistryOf(PublicClass.s)
        PrivateClass == PrivateClassOf(PublicClass.c)
        op(receiver, privatValue, err, note) ==
            Op("set", PublicClass.s, PublicClass.c, this, key, publicValue, receiver,
               privatValue, Undefined, Undefined, err, note)
        a == toPrivate(PublicClass.s, reg, _privateMap, this, publicValue, FreshArray(publicValue))
    IN  /\ Ready
        /\ Has(own, key)
        /\ own[key].set = "setter"
        /\ IF unbound(reg, level, this)
           THEN last' = op(Undefined, Undefined, "none", "unbound")
           ELSE IF a.err
           THEN last' = op(Undefined, Undefined, "TypeError", "")
           ELSE last' = op(privateReceiver(reg, level, this, PrivateClass), a.v, "none", "setter")
        /\ UNCHANGED <<utilityMaps, _privateMap, heap, redefined, facades, cfg>>

\* ------------------------------------------------------------ environment
\* the implementation creates an instance itself: new PrivateClass()
NewPrivateInstance(T) ==
    /\ Ready
    /\ Cardinality(privateInstances) < cfg.maxPriv
    /\ heap' = Set(heap, FreshPrivate(heap), PrivateClassOf(T))
    /\ last' = Op("new", "", T, Undefined, NoKey, Undefined, Undefined, Undefined, Undefined,
                  FreshPrivate(heap), "none", "")
    /\ UNCHANGED <<utilityMaps, _privateMap, redefined, facades, cfg>>

\* the redefinitions of private members the workloads exercise
RedefineVersion == <<<<"Counter", "static", k_VERSION>>, Constant(Num(2))>>
RedefineKind == <<<<"Counter", "proto", k_kind>>, Constant(Num(2))>>
RedefineDefaults == <<<<"Legacy", "static", k_DEFAULTS>>, Constant(Num(1))>>

\* the implementation redefines one of its members:
\* Object.defineProperty(PrivateClass or PrivateClass.prototype, key, descriptor)
Redefine(slot, descriptor) ==
    /\ Ready
    /\ privateMembers(redefined, slot[1])[slot[2]][slot[3]] # descriptor
    /\ redefined' = Set(redefined, slot, descriptor)
    /\ last' = Op("redefine", "", slot[1], Undefined, slot[3], descriptor.value, Undefined,
                  Undefined, Undefined, Undefined, "none", slot[2])
    /\ UNCHANGED <<utilityMaps, _privateMap, heap, facades, cfg>>

\* ---------------------------------------------------------------- inputs
instances == privateInstances \cup publicInstances

\* argument values: scalars, plain objects, instances of either side
Atoms == {Num(5), PlainObject(1)} \cup instances

\* elements of array arguments: plain values, instances, nested arrays
Elements == {Num(5)} \cup instances \cup {Array(3, <<x>>) : x \in instances}

ArraysAt(n) ==
    IF cfg.arrays
    THEN {Array(n, el) : el \in UNION {[1..k -> Elements] : k \in 0..MaxLen}}
    ELSE {}

\* pending results: fulfilled with a plain value or an instance, or rejected
PendingResults ==
    IF cfg.pending
    THEN {Pending("fulfilled", v) : v \in {Num(5)} \cup instances}
            \cup {Pending("rejected", PlainObject(1))}
    ELSE {}

\* the classes of either side
Types ==
    IF cfg.types
    THEN (DOMAIN facades) \cup {PrivateClassOf(T) : T \in cfg.classes}
    ELSE {}

ArgValues == Atoms \cup ArraysAt(2) \cup PendingResults \cup Types

\* argument lists: the array `publicArgs` (identity 1)
ArgLists == {Array(1, <<>>)} \cup {Array(1, <<a>>) : a \in ArgValues}

\* the values an "any" member may hand back
AnyValues == Atoms \cup ArraysAt(4) \cup PendingResults \cup Types

\* what the private function fn may return when its body is "any", and the
\* argument lists it is called with (one that ignores its arguments: none)
ResultsOf(fn) == IF fn.c = "any" THEN AnyValues ELSE {Undefined}
ArgListsFor(fn) == IF fn.c = "any" THEN {Array(1, <<>>)} ELSE ArgLists

Levels == {"static", "proto"}

\* ------------------------------------------------------------------ init
InitState ==
    /\ publicClassesMap = EmptyMap
    /\ privateClassesMap = EmptyMap
    /\ publicInstancesMap = EmptyMap
    /\ privateInstancesMap = EmptyMap
    /\ _privateMap = EmptyMap
    /\ heap = EmptyMap
    /\ redefined = EmptyMap
    /\ facades = EmptyMap
    /\ last = Idle

Init ==
    /\ InitState
    /\ cfg = [classes |-> {"Counter"}, builders |-> {"b1"},
              maxPriv |-> MaxPriv, maxPub |-> MaxPub, arrays |-> FALSE,
              pending |-> FALSE, types |-> FALSE,
              redefine |-> {RedefineVersion},
              ctors |-> CtorBehaviours]

\* The engine is synchronous: an operation runs to completion, the caller
\* takes its result (or its error), and only then starts the next one.
Return ==
    /\ last.op # "idle"
    /\ last' = Idle
    /\ UNCHANGED <<utilityMaps, _privateMap, heap, redefined, facades, cfg>>

Next ==
    \/ \E PrivateClass \in CompileInputs : getPublicClass(PrivateClass)
    \/ \E b \in cfg.builders : PublicClassBuilder_constructor(b)
    \/ \E b \in cfg.builders, PrivateClass \in CompileInputs :
          PublicClassBuilder_getPublicClass(b, PrivateClass)
    \/ \E PublicClass \in DOMAIN facades, publicArgs \in ArgLists, ctor \in cfg.ctors,
          existing \in privateInstances \cup {Undefined} :
          /\ (ctor = "returnsExisting") = (existing # Undefined)
          /\ ctor # "plain" => publicArgs = Array(1, <<>>)
          /\ PublicClass_constructor(PublicClass, publicArgs, ctor, existing)
    \/ \E PublicClass \in DOMAIN facades, x \in Atoms \cup {Undefined} :
          PublicClass_get(PublicClass, x)
    \/ \E PublicClass \in DOMAIN facades, level \in Levels :
          \E key \in {k \in DOMAIN facades[PublicClass][level] :
                          facades[PublicClass][level][k].value = "method"},
             this \in ReceiversOf(PublicClass, level) :
             \E publicArgs \in ArgListsFor(facades[PublicClass][level][key].privateProperty.value),
                any \in ResultsOf(facades[PublicClass][level][key].privateProperty.value) :
                callMethod(PublicClass, level, this, key, publicArgs, any)
    \/ \E PublicClass \in DOMAIN facades, level \in Levels :
          \E key \in {k \in DOMAIN facades[PublicClass][level] :
                          facades[PublicClass][level][k].get # "absent"},
             this \in ReceiversOf(PublicClass, level) :
             \E any \in ResultsOf(facades[PublicClass][level][key].privateProperty.get) :
                getMember(PublicClass, level, this, key, any)
    \/ \E PublicClass \in DOMAIN facades, level \in Levels :
          \E key \in {k \in DOMAIN facades[PublicClass][level] :
                          facades[PublicClass][level][k].set # "absent"},
             this \in ReceiversOf(PublicClass, level), publicValue \in ArgValues :
             setMember(PublicClass, level, this, key, publicValue)
    \/ \E T \in cfg.classes : NewPrivateInstance(T)
    \/ \E r \in cfg.redefine : Redefine(r[1], r[2])
    \/ Return

Spec == Init /\ [][Next]_vars

\* the workload with array arguments and results: fewer instances, plain
\* constructors only
InitSeq ==
    /\ InitState
    /\ cfg = [classes |-> {"Counter"}, builders |-> {"b1"},
              maxPriv |-> MaxPriv, maxPub |-> MaxSeqPub, arrays |-> TRUE,
              pending |-> FALSE, types |-> FALSE,
              redefine |-> {RedefineKind},
              ctors |-> {"plain"}]

SpecSeq == InitSeq /\ [][Next]_vars

\* the workload over a subclass that declares members named _get and a
\* type with a writable static field
InitTypes ==
    /\ InitState
    /\ cfg = [classes |-> {"SubCounter", "Legacy"}, builders |-> {"b1"},
              maxPriv |-> MaxPriv, maxPub |-> MaxSeqPub, arrays |-> FALSE,
              pending |-> FALSE, types |-> FALSE,
              redefine |-> {RedefineDefaults},
              ctors |-> {"plain"}]

SpecTypes == InitTypes /\ [][Next]_vars

\* the workload whose arguments and results include pending results and
\* the classes of either side
InitValues ==
    /\ InitState
    /\ cfg = [classes |-> {"Counter"}, builders |-> {"b1"},
              maxPriv |-> MaxPriv, maxPub |-> MaxSeqPub, arrays |-> FALSE,
              pending |-> TRUE, types |-> TRUE,
              redefine |-> {RedefineKind},
              ctors |-> {"plain"}]

SpecValues == InitValues /\ [][Next]_vars

\* the workload with two builders, over one class and the private instances
\* the callers of both share
InitBuilders ==
    /\ InitState
    /\ cfg = [classes |-> {"Counter"}, builders |-> {"b1", "b2"},
              maxPriv |-> MaxPriv, maxPub |-> MaxSeqPub, arrays |-> FALSE,
              pending |-> FALSE, types |-> FALSE,
              redefine |-> {RedefineKind},
              ctors |-> {"plain"}]

SpecBuilders == InitBuilders /\ [][Next]_vars

\* ============================================================ properties
\* the two instance maps of one registry are inverse to each other
InverseMaps(reg) ==
    /\ \A f \in DOMAIN reg.publicInstancesMap :
          /\ Has(reg.privateInstancesMap, reg.publicInstancesMap[f])
          /\ reg.privateInstancesMap[reg.publicInstancesMap[f]] = f
    /\ \A p \in DOMAIN reg.privateInstancesMap :
          /\ Has(reg.publicInstancesMap, reg.privateInstancesMap[p])
          /\ reg.publicInstancesMap[reg.privateInstancesMap[p]] = p

\* C1: in every registry, after any sequence of operations, the instance
\* bindings form a bijection: every registered facade instance maps to one
\* implementation instance and that implementation instance maps back to
\* the same facade instance, and conversely.
C1_InstanceBijection == \A s \in Scopes : InverseMaps(RegistryOf(s))

\* C2: compiling a type that is already compiled in a scope returns the
\* facade type registered for it, and no step ever replaces or removes the
\* class-level entry of a compiled type.
C2_CompileIdempotent ==
    [][\A s \in Scopes : \A PrivateClass \in DOMAIN RegistryOf(s).privateClassesMap :
          /\ Has(RegistryOf(s)'.privateClassesMap, PrivateClass)
          /\ RegistryOf(s)'.privateClassesMap[PrivateClass] =
                RegistryOf(s).privateClassesMap[PrivateClass]
          /\ (last'.op = "getPublicClass" /\ last'.s = s /\ last'.args = PrivateClass)
                => /\ last'.err = "none"
                   /\ last'.ret = RegistryOf(s).privateClassesMap[PrivateClass]]_vars

\* a compiled type was compiled again, after instances were bound and a
\* member of the implementation type was redefined
C2_Recompiled ==
    /\ last.op = "getPublicClass"
    /\ last.note = "cached"
    /\ redefined # EmptyMap
    /\ DOMAIN RegistryOf(last.s).publicInstancesMap # {}

C4_FactoryYieldsFacade ==
    /\ (last.op = "call" /\ last.key = k_create /\ last.this.t = "PublicClass")
          => /\ last.err = "none"
             /\ last.ret.t = "publicInstance"
             /\ Has(RegistryOf(last.s).publicInstancesMap, last.ret)
             /\ RegistryOf(last.s).publicInstancesMap[last.ret] = last.privateResult
    /\ (last.op = "call" /\ last.key = k_increment /\ last.note # "unbound")
          => /\ last.err = "none"
             /\ last.ret = last.this

\* C5: in both scopes the lookup accessor has exactly three outcomes: the
\* registered facade instance, unchanged registry; a new facade instance
\* bound to an unbound instance of the implementation type; the
\* unrelated-instance error, unchanged registry. It raises no other error.
C5_LookupOutcomes ==
    [][\A s \in Scopes :
          (last'.op = "_get" /\ last'.s = s)
          => LET x == First(last'.args)
                 reg == RegistryOf(s)
             IN  IF Has(reg.privateInstancesMap, x)
                 THEN /\ last'.err = "none"
                      /\ last'.ret = reg.privateInstancesMap[x]
                      /\ UNCHANGED <<utilityMaps, _privateMap>>
                 ELSE IF InstanceOf(heap, x, PrivateClassOf(last'.cls))
                 THEN /\ last'.err = "none"
                      /\ last'.ret \notin DOMAIN heap
                      /\ RegistryOf(s)' = bind(reg, last'.ret, x)
                 ELSE /\ last'.err = "UnrelatedInstance"
                      /\ UNCHANGED <<utilityMaps, _privateMap>>]_vars

\* C6 (as stated): no facade type and no facade prototype has a member whose
\* name begins with the internal marker '_'.
C6_NoInternalMember ==
    \A PublicClass \in DOMAIN facades : \A level \in Levels :
        \A key \in DOMAIN ownMembers(facades, PublicClass)[level] :
            ~StartsWithUnderscore(key)

\* C6 (amended): no own member of a facade type or of its prototype is
\* synthesized from an implementation member whose name begins with '_'; the
\* only own member with such a name is the facade type's static lookup
\* accessor _get, which the bridge declares itself.
C6_OnlyLookupAccessor ==
    \A PublicClass \in DOMAIN facades : \A level \in Levels :
        \A key \in DOMAIN ownMembers(facades, PublicClass)[level] :
            StartsWithUnderscore(key)
            => /\ level = "static"
               /\ key = k_get
               /\ ownMembers(facades, PublicClass)[level][key] = PublicClassOwn[k_get]

\* a type with internal members at both levels has been compiled
C6_InternalMembersCompiled ==
    \E PublicClass \in DOMAIN facades :
        \A level \in Levels :
            \E key \in DOMAIN privateMembers(redefined, PublicClass.c)[level] :
                /\ StartsWithUnderscore(key)
                /\ key.type = "string"

\* the values the translator hands on as they are in registry reg: scalars,
\* plain objects, instances without a counterpart
PassesThrough(reg, v) ==
    \/ v.t \in {"number", "string", "undefined", "object"}
    \/ /\ v.t \in {"privateInstance", "publicInstance"}
       /\ ~Has(reg.privateInstancesMap, v)
       /\ ~Has(reg.publicInstancesMap, v)

\* C7: in both scopes a synthesized method called on a bound facade, whose
\* underlying result is a scalar or an object without registered
\* counterpart, returns exactly that value and raises no error. Checked on
\* the methods that return their first argument (of) and on every call that
\* completed.
C7_PassThrough ==
    /\ (/\ last.op = "call"
        /\ last.note = "echo"
        /\ PassesThrough(RegistryOf(last.s), First(last.args)))
          => /\ last.err = "none"
             /\ last.ret = First(last.args)
    /\ (/\ last.op = "call"
        /\ last.note \notin {"unbound", "echo"}
        /\ last.err = "none"
        /\ PassesThrough(RegistryOf(last.s), last.privateResult))
          => last.ret = last.privateResult

\* C9: binding is permanent: no step removes or reassigns the
\* facade-instance -> implementation-instance entry of a bound facade
\* instance, in any scope.
C9_BindingPermanent ==
    [][\A s \in Scopes : \A f \in DOMAIN RegistryOf(s).publicInstancesMap :
          /\ Has(RegistryOf(s)'.publicInstancesMap, f)
          /\ RegistryOf(s)'.publicInstancesMap[f] = RegistryOf(s).publicInstancesMap[f]]_vars

\* a second facade instance was bound to an implementation instance that
\* already had one, and the first is still bound to it
C9_BoundTwice ==
    \E s \in Scopes : \E f1, f2 \in DOMAIN RegistryOf(s).publicInstancesMap :
        /\ f1 # f2
        /\ RegistryOf(s).publicInstancesMap[f1] = RegistryOf(s).publicInstancesMap[f2]
        /\ last.op = "constructor"
        /\ last.note = "returnsExisting"

\* C10: a read of a facade member that mirrors a plain-value implementation
\* member returns the value the implementation member holds at the time of
\* the read, also when that value was changed after compile.
C10_ReadsCurrentValue ==
    (last.op = "get" /\ last.note = "valueGetter" /\ last.err = "none")
    => LET level == IF last.this.t = "PublicClass" THEN "static" ELSE "proto"
       IN  last.ret = privateMembers(redefined, last.cls)[level][last.key].value

\* out is the element-wise translation of in under map: a registered value
\* is replaced by its counterpart, a sequence by a sequence of the same
\* length whose i-th element is the translation of the i-th, anything else
\* is the same value
RECURSIVE Translated(_, _, _)
Translated(map, in, out) ==
    IF Has(map, in) THEN out = map[in]
    ELSE IF IsArray(in)
    THEN /\ IsArray(out)
         /\ Len(out.el) = Len(in.el)
         /\ \A i \in 1..Len(in.el) : Translated(map, in.el[i], out.el[i])
    ELSE out = in

\* ... and no sequence of out is one of the sequences of in
NewSequence(map, in, out) ==
    /\ Translated(map, in, out)
    /\ ArrayIds(in) \cap ArrayIds(out) = {}

\* some argument of the list is itself a sequence of several elements
HasSequenceArgument(args) ==
    /\ IsArray(args)
    /\ \E i \in 1..Len(args.el) : IsArray(args.el[i]) /\ Len(args.el[i].el) >= 2

\* C8: a call through a bound facade whose argument list holds a sequence
\* hands the implementation a new sequence of the same length and order
\* whose elements are the translations of the input's elements (nested
\* sequences included), and a result that is a sequence reaches the caller
\* translated the same way.
C8_SequenceTranslation ==
    (/\ last.op = "call"
     /\ last.note # "unbound"
     /\ HasSequenceArgument(last.args))
    => /\ last.err = "none"
       /\ NewSequence(RegistryOf(last.s).publicInstancesMap, last.args, last.privateArgs)
       /\ NewSequence(RegistryOf(last.s).privateInstancesMap, last.privateResult, last.ret)

\* the same for the facades of the shared scope (src/Utility.js) alone,
\* arguments and results of calls and the values handed to setters
SharedSequenceTranslation ==
    (/\ last.op \in {"call", "set"}
     /\ last.s = "shared"
     /\ last.note # "unbound")
    => /\ last.err = "none"
       /\ NewSequence(publicInstancesMap, last.args, last.privateArgs)
       /\ NewSequence(privateInstancesMap, last.privateResult, last.ret)

\* new is the pending result a translator derives from the pending result
\* original: another object, which settles after original does, fulfilled
\* with the translation of its value or rejected with its reason
DerivedFrom(original, new) ==
    /\ new.t = "promise"
    /\ new # original
    /\ new.el = <<original>>

\* C11: a pending result handed to the translator, as an argument or as a
\* result, comes out as a new pending result, distinct from the original,
\* that fulfils with the translation of the original's value or rejects with
\* the original's reason.
C11_PendingTranslated ==
    /\ (/\ last.op \in {"call", "get"}
        /\ last.err = "none"
        /\ last.note # "unbound"
        /\ last.privateResult.t = "promise")
          => DerivedFrom(last.privateResult, last.ret)
    /\ (/\ last.op = "call"
        /\ last.err = "none"
        /\ last.note # "unbound"
        /\ First(last.args).t = "promise")
          => DerivedFrom(First(last.args), First(last.privateArgs))

\* C12: in both scopes a registered facade type handed in as an argument
\* reaches the implementation as its implementation type, and a registered
\* implementation type handed back as a result reaches the caller as its
\* facade type.
C12_TypesTranslated ==
    /\ (/\ last.op = "call"
        /\ last.note # "unbound"
        /\ Has(RegistryOf(last.s).publicClassesMap, First(last.args)))
          => /\ last.err = "none"
             /\ First(last.privateArgs) = RegistryOf(last.s).publicClassesMap[First(last.args)]
    /\ (/\ last.op \in {"call", "get"}
        /\ last.err = "none"
        /\ last.note # "unbound"
        /\ Has(RegistryOf(last.s).privateClassesMap, last.privateResult))
          => last.ret = RegistryOf(last.s).privateClassesMap[last.privateResult]

\* The registry of builder b and the shared registry correspond: the same
\* private classes are compiled, the same private instances are bound, each
\* through the facade type of the same private class, and in each registry
\* the instance maps are inverse to each other.
Corresponds(b) ==
    LET B == _privateMap[BuilderOf(b)]
    IN  /\ DOMAIN B.privateClassesMap = DOMAIN privateClassesMap
        /\ DOMAIN B.privateInstancesMap = DOMAIN privateInstancesMap
        /\ InverseMaps(B)
        /\ InverseMaps(UtilityRegistry)
        /\ \A x \in DOMAIN privateInstancesMap :
              heap[B.privateInstancesMap[x]].c = heap[privateInstancesMap[x]].c

\* the value of the shared side that corresponds to v of builder b's side
Twin(b, v) ==
    LET B == _privateMap[BuilderOf(b)]
    IN  IF Has(B.publicInstancesMap, v) THEN privateInstancesMap[B.publicInstancesMap[v]]
        ELSE IF Has(B.publicClassesMap, v) THEN privateClassesMap[B.publicClassesMap[v]]
        ELSE IF IsArray(v) /\ Len(v.el) = 1
        THEN Array(v.id,
                   <<IF Has(B.publicInstancesMap, v.el[1])
                     THEN privateInstancesMap[B.publicInstancesMap[v.el[1]]]
                     ELSE IF Has(B.publicClassesMap, v.el[1])
                     THEN privateClassesMap[B.publicClassesMap[v.el[1]]]
                     ELSE v.el[1]>>)
        ELSE v

\* the error (or "none") the shared engine ends the operation o with, when o
\* is applied to the corresponding facade type and values of the shared scope
SharedErr(b, o) ==
    LET PublicClass == privateClassesMap[PrivateClassOf(o.cls)]
        thrown(r) == IF r.err THEN "TypeError" ELSE "none"
    IN  CASE o.op = "_get" ->
               lookup(PublicClass, Twin(b, First(o.args)), heap, UtilityRegistry).err
          [] o.op = "constructor" ->
               construct(_privateMap, PrivateClassOf(o.cls), PublicClass, Twin(b, o.args),
                         IF o.note = "wrap" THEN "plain" ELSE o.note, o.privateResult,
                         heap, UtilityRegistry).err
          [] o.op = "get" ->
               thrown(toPublic("shared", UtilityRegistry, _privateMap, PublicClass,
                               o.privateResult, 1))
          [] OTHER ->
               thrown(toPrivate("shared", UtilityRegistry, _privateMap, PublicClass,
                                Twin(b, o.args), 1))

\* C13: the shared engine and a builder are observably equivalent: whenever
\* their registries correspond, an operation on a facade type of the builder
\* ends with the same error, or with none, as the corresponding operation on
\* the facade type of the shared scope.
C13_ScopesEquivalent ==
    [][\A b \in cfg.builders :
          (/\ Has(_privateMap, BuilderOf(b))
           /\ last'.s = b
           /\ last'.op \in {"_get", "constructor", "call", "get", "set"}
           /\ Corresponds(b))
          => last'.err = SharedErr(b, last')]_vars

\* C14: a member of the facade prototype (method, getter, setter, accessor of
\* a plain value) used on a receiver that is bound to no private instance,
\* such as the prototype itself, yields undefined without an error, invokes
\* no private member and changes neither a registry nor the heap.
C14_UnboundAbsent ==
    [][(/\ last'.op \in {"call", "get", "set"}
        /\ last'.this.t # "PublicClass"
        /\ ~Has(RegistryOf(last'.s).publicInstancesMap, last'.this))
       => /\ last'.err = "none"
          /\ last'.ret = Undefined
          /\ last'.receiver = Undefined
          /\ last'.privateArgs = Undefined
          /\ last'.privateResult = Undefined
          /\ last'.note = "unbound"
          /\ UNCHANGED <<utilityMaps, _privateMap, heap>>]_vars

\* a member was used on the prototype object itself, after an instance of
\* the facade type had been bound
C14_UnboundUsed ==
    /\ last.op \in {"call", "get", "set"}
    /\ last.note = "unbound"
    /\ last.this.t = "prototype"
    /\ \E f \in DOMAIN RegistryOf(last.s).publicInstancesMap : heap[f].c = last.cls

\* callable, and with a prototype whose members can be listed
IsClass(v) == TypeOf(v) = "function" /\ HasPrototype(v)

\* C15: getPublicClass of a value that is not a class fails with the NotAClass
\* error and leaves the four maps of every scope unchanged; getPublicClass of
\* a class never fails with NotAClass.
C15_NotAClass ==
    [][last'.op = "getPublicClass"
       => IF IsClass(last'.args)
          THEN last'.err # "NotAClass"
          ELSE /\ last'.err = "NotAClass"
               /\ last'.ret = Undefined
               /\ UNCHANGED <<utilityMaps, _privateMap, facades>>]_vars

\* a value that is not a class was refused in a scope that holds a compiled
\* class and a bound instance
C15_Refused ==
    /\ last.op = "getPublicClass"
    /\ last.err = "NotAClass"
    /\ RegistryOf(last.s).privateClassesMap # EmptyMap
    /\ RegistryOf("shared").privateInstancesMap # EmptyMap

\* toPublic(value, registry) and toPrivate(value, registry) of scope s, called
\* the way the scope's own code can call them without failing: the closure's
\* translators in Utility.js, the translators applied to the builder itself
\* in PublicClassBuilder.js
toPublicIn(s, v) ==
    IF s = "shared" THEN filterPrivateInstance(privateInstancesMap, v, 1).v
    ELSE filterPrivate(_privateMap, BuilderOf(s), v, 1).v

toPrivateIn(s, v) ==
    IF s = "shared" THEN filterPublicInstance(publicInstancesMap, v, 1).v
    ELSE filterPublic(_privateMap, BuilderOf(s), v, 1).v

\* C16: toPublic and toPrivate are mutual inverses in every reachable state of
\* every registry: a registered private instance, a registered facade
\* instance and an unregistered value that is not a sequence each come back
\* from either round trip, and a sequence comes back as a sequence with the
\* same elements.
C16_MutualInverses ==
    \A s \in Scopes :
        LET reg == RegistryOf(s)
            registered == DOMAIN reg.privateInstancesMap \cup DOMAIN reg.publicInstancesMap
                          \cup DOMAIN reg.privateClassesMap \cup DOMAIN reg.publicClassesMap
        IN  /\ \A x \in DOMAIN reg.privateInstancesMap :
                  /\ toPrivateIn(s, toPublicIn(s, x)) = x
                  /\ toPrivateIn(s, toPublicIn(s, Array(1, <<x, Num(5)>>))).el = <<x, Num(5)>>
            /\ \A f \in DOMAIN reg.publicInstancesMap :
                  /\ toPublicIn(s, toPrivateIn(s, f)) = f
                  /\ toPublicIn(s, toPrivateIn(s, Array(1, <<f, Num(5)>>))).el = <<f, Num(5)>>
            /\ \A v \in (Atoms \cup {Undefined}) \ registered :
                  /\ toPrivateIn(s, toPublicIn(s, v)) = v
                  /\ toPublicIn(s, toPrivateIn(s, v)) = v

\* the elements of a sequence, or the value itself
Elems(v) == IF IsArray(v) THEN v.el ELSE <<v>>

\* C17: a synthesized method translates all its arguments to the private
\* side, invokes the private method on them with the facade class itself as
\* receiver when it is a static member and with the bound private instance
\* when it is a prototype member, and returns the result translated to the
\* public side.
C17_MethodDelegates ==
    (last.op = "call" /\ last.note # "unbound")
    => /\ last.err = "none"
       /\ Elems(last.privateArgs) = Elems(toPrivateIn(last.s, last.args))
       /\ last.receiver = IF last.this.t = "PublicClass" THEN last.this
                          ELSE Get(RegistryOf(last.s).publicInstancesMap, last.this)
       /\ Elems(last.ret) = Elems(toPublicIn(last.s, last.privateResult))

\* a member that is neither an accessor nor a function
IsPlainValue(privateProperty) ==
    /\ privateProperty.get = Undefined
    /\ privateProperty.set = Undefined
    /\ TypeOf(privateProperty.value) # "function"

\* C18: whatever the writable, configurable and enumerable attributes of the
\* plain-value members of a class are, getPublicClass completes without an
\* error, and the PublicClass has for each of them a getter without a setter
\* that is not writable, enumerable and configurable exactly when the member
\* of the private class is.
C18_PlainValuesReadOnly ==
    (last.op = "getPublicClass" /\ IsClass(last.args) /\ last.note # "cached")
    => /\ last.err = "none"
       /\ \A level \in {"static", "proto"} :
             LET source == privateMembers(redefined, last.cls)[level]
                 reserved == IF level = "static" THEN k_prototype ELSE k_constructor
                 own == ownMembers(facades, last.ret)[level]
             IN  \A key \in DOMAIN source :
                     (~SkipKey(key, reserved) /\ IsPlainValue(source[key]))
                     => /\ Has(own, key)
                        /\ own[key].get = "valueGetter"
                        /\ own[key].set = "absent"
                        /\ own[key].value = "absent"
                        /\ ~own[key].writable
                        /\ own[key].enumerable = source[key].enumerable
                        /\ own[key].configurable = source[key].configurable

\* the facade instances and private instances some registry has an entry for
BoundObjects ==
    UNION {DOMAIN RegistryOf(s).publicInstancesMap \cup DOMAIN RegistryOf(s).privateInstancesMap :
           s \in Scopes}

\* the private constructor of the construct form raised
CtorRaises(o) == o.op = "constructor" /\ o.note \in {"throws", "lookupSelfThrows"}

\* every entry of map m is an entry of map n
Extends(n, m) == \A x \in DOMAIN m : Has(n, x) /\ n[x] = m[x]

\* C19 (as stated): a construct form whose private constructor throws ends
\* with an error and leaves every registry exactly as it was before the call.
C19_RegistryUntouched ==
    [][CtorRaises(last')
       => /\ last'.err # "none"
          /\ UNCHANGED <<utilityMaps, _privateMap>>]_vars

\* C19 (amended): a construct form whose private constructor throws ends
\* with that error and makes no entry of its own: the facade instance under
\* construction has no entry in either instance map of any registry, the
\* class maps are unchanged, and every pair registered before is still
\* there. Entries made by bridge operations the constructor performed itself
\* before it threw remain.
C19_FailedConstructBindsNothing ==
    [][CtorRaises(last')
       => /\ last'.err # "none"
          /\ last'.privateArgs # Undefined => last'.err = "Error"
          /\ last'.this \notin BoundObjects'
          /\ \A s \in Scopes :
                /\ Extends(RegistryOf(s).publicInstancesMap', RegistryOf(s).publicInstancesMap)
                /\ Extends(RegistryOf(s).privateInstancesMap', RegistryOf(s).privateInstancesMap)
                /\ RegistryOf(s).publicClassesMap' = RegistryOf(s).publicClassesMap
                /\ RegistryOf(s).privateClassesMap' = RegistryOf(s).privateClassesMap]_vars

\* the private constructor threw in a scope that holds a pair bound before
C19_ConstructorThrew ==
    /\ CtorRaises(last)
    /\ last.err = "Error"
    /\ \E f \in DOMAIN RegistryOf(last.s).publicInstancesMap : f.id < last.this.id

\* C20: whenever PublicClass._get(x) returns a facade instance, that instance
\* was constructed by this PublicClass and x is an instance of the private
\* class the PublicClass was compiled from; it is never the facade instance
\* of another PublicClass.
C20_LookupTyped ==
    (last.op = "_get" /\ last.err = "none")
    => /\ Has(heap, last.ret)
       /\ heap[last.ret] = last.this
       /\ InstanceOf(heap, First(last.args), PrivateClassOf(last.cls))

\* the operations that go through a builder or one of its PublicClasses
BridgeOps == {"getPublicClass", "constructor", "_get", "call", "get", "set"}

====
